---- MODULE Spec2Model ----
(***************************************************************************)
(* Model of the Go board recognition session (gr/board.py, class GrBoard)  *)
(* and of the draggable image mask (gr/ui_extra.py, class ImageMask).      *)
(*                                                                         *)
(* Python's None is the empty sequence and a present value v is <<v>>, so  *)
(* that optional values of any shape can be compared.                      *)
(***************************************************************************)
EXTENDS Integers, Sequences, FiniteSets, TLC

None == <<>>
Some(v) == <<v>>

\* ------------------------------------------------------------------ bounds
\* longest history of warps/rescales kept in one image's pixel content
MaxOps == 2
\* largest pixel coordinate / numerator a rescaled result may reach
MaxPix == 8
\* largest denominator of a rescaled spacing or edge value
MaxDen == 2
\* width and height of the image the mask is drawn on
ShapeW == 4
ShapeH == 4
\* largest min_dist a mask is constructed with
MaxMinDist == 1
\* largest column and largest row a stone is looked up at by label
MaxCol == 10
MaxRow == 10
\* largest coordinate of the points is_on and is_on_w are tried on
MaxCoord == 2
\* largest delta is_on_w is tried with
MaxDelta == 2

\* ------------------------------------------------------- program constants
\* where a stone keeps its pixel x, pixel y, grid column, grid row, radius
GR_X == 1
GR_Y == 2
GR_A == 3
GR_B == 4
GR_R == 5
\* the board size when neither result nor parameters give one
DEF_BOARD_SIZE == 19

\* ------------------------------------------------------------- rationals
\* floats that are exact in the model: <<numerator, denominator>>, reduced
RECURSIVE GCD(_, _)
GCD(a, b) == IF b = 0 THEN a ELSE GCD(b, a % b)

Rat(n, d) == LET g == GCD(n, d) IN IF g = 0 THEN <<0, 1>> ELSE <<n \div g, d \div g>>

RatMul(p, q) == Rat(p[1] * q[1], p[2] * q[2])

RatLe(p, q) == p[1] * q[2] <= q[1] * p[2]

RatMax(p, q) == IF RatLe(p, q) THEN q ELSE p

\* int(n * s): Python's int() truncates; all values here are non-negative
IntMul(n, s) == (n * s[1]) \div s[2]

\* ------------------------------------------------------------ input sets
\* image files that decode, and one that does not
GoodFiles == {"a", "b"}
BadFiles == {"x"}
Files == GoodFiles \cup BadFiles

\* a 4-point quadrilateral and a malformed 3-point one
R4 == << <<1, 1>>, <<7, 1>>, <<7, 7>>, <<1, 7>> >>
R3 == << <<1, 1>>, <<7, 1>>, <<7, 7>> >>
Rects == {None, Some(R3), Some(R4)}

E1 == << <<2, 2>>, <<18, 18>> >>

\* shapes a board is generated with
Shapes == {1}

\* scale factors resize2 reports, per axis
Half == <<1, 2>>
Two == <<2, 1>>
Scales == { <<Half, Two>> }

\* scales resize2 may report when the caller asked for a scale
One == <<1, 1>>
ResizeOutputs == { <<Half, Half>>, <<One, One>>, <<Two, Two>> }

\* max_size arguments of resize_board / save_image
MaxSizes == {None, Some(16)}

\* scale arguments of resize_board: none, or a factor per axis
ScaleArgs == {None, Some(<<Half, Half>>), Some(<<Two, Two>>)}

\* ------------------------------------------------------------ parameters
ParamKeys == {"AREA_MASK", "BOARD_EDGES", "BOARD_SIZE", "TRANSFORM"}

\* GrParams(): none of the four geometry keys is set
NewParams == [k \in ParamKeys |-> None]

\* GrParams.assign(p): the keys the dictionary p holds replace the session's
Assign(ps, p) == [k \in ParamKeys |-> IF k \in DOMAIN p THEN p[k] ELSE ps[k]]

\* GrParams.__setitem__
SetItem(ps, key, v) == [ps EXCEPT ![key] = v]

\* parameter dictionaries found in .gpar artifacts or assigned by a caller
ParamDicts ==
    { [TRANSFORM |-> Some(R4)],
      [TRANSFORM |-> Some(R3), BOARD_SIZE |-> Some(9)] }

\* GrParams.todict: every key with its value
todict(ps) == [k \in ParamKeys |-> ps[k]]

\* json.dump of a parameter dictionary: None is written as null, a number as
\* a number, a rectangle as an array
json_dump(d) ==
    [k \in DOMAIN d |->
        IF d[k] = None THEN <<"null">>
        ELSE IF k = "BOARD_SIZE" THEN <<"number", d[k][1]>>
        ELSE <<"array", d[k][1]>>]

\* json.load of a parameter artifact
json_load(j) ==
    [k \in DOMAIN j |-> IF j[k][1] = "null" THEN None ELSE Some(j[k][2])]

\* the artifacts on disk when a session is constructed: a.gpar only
InitGpar ==
    [f \in GoodFiles |->
        IF f = "a" THEN Some(json_dump([TRANSFORM |-> Some(R4)])) ELSE None]

\* no backup of an artifact is on disk then
InitGbak == [f \in GoodFiles |-> None]

\* ---------------------------------------------------------------- images
\* pixel content: where the pixels came from and what was applied to them
Decoded(f) == [kind |-> "file", id |-> f, ops |-> <<>>]

Generated(shape) == [kind |-> "gen", id |-> ToString(shape), ops |-> <<>>]

External == [kind |-> "ext", id |-> "e", ops |-> <<>>]

\* imutils four_point_transform: a new image, the quadrilateral warped
Warp(px, rect) == [px EXCEPT !.ops = Append(@, <<"transform", rect>>)]

\* gr.utils.resize2: a new image, rescaled per axis
Rescale(px, sc) == [px EXCEPT !.ops = Append(@, <<"resize", sc>>)]

\* an image buffer: its identity and its pixel content
Buf(b, px) == [buf |-> b, px |-> px]

\* ---------------------------------------------------- detector (external)
\* a stone: <<pixel x, pixel y, grid column, grid row, pixel radius>>
S1 == <<3, 4, 1, 1, 2>>
S2 == <<4, 3, 2, 2, 1>>

\* result bundles process_img can return; a stone list may come back as None
DetResult(b, w, size) ==
    [stones_b |-> b, stones_w |-> w, spacing |-> <<Rat(1, 1), Rat(1, 1)>>,
     edges |-> << <<Rat(1, 1), Rat(1, 1)>>, <<Rat(4, 1), Rat(4, 1)>> >>,
     board_size |-> size]

DetOutputs ==
    { None,
      Some(DetResult(None, None, 9)),
      Some(DetResult(Some(<<S1>>), Some(<<S2>>), 19)) }

\* results with more stones, for the lookups: black at A1 and B1, white at
\* J10, on a board of 19 or of 9 lines
S3 == <<6, 6, 2, 1, 1>>
S4 == <<4, 3, 10, 10, 1>>

StoneOutputs ==
    { Some(DetResult(Some(<<S1, S3>>), Some(<<S4>>), 19)),
      Some(DetResult(Some(<<S1, S3>>), Some(<<S4>>), 9)) }

\* <<edges, size>> pairs detect_board can return
EdgeOutputs == { <<E1, 9>> }

\* --------------------------------------------------------------- state
VARIABLES
    params,         \* self._params
    res,            \* self._res
    img,            \* self._img
    img_file,       \* self._img_file
    src_img,        \* self._src_img
    src_img_file,   \* self._src_img_file
    gen_board,      \* self._gen_board
    gpar,           \* the .gpar parameter artifacts on disk, per image file
    gbak,           \* the .gpar.bak backups of them on disk
    op,             \* the operation that ran last
    err,            \* the exception it raised, or None
    ret,            \* what it returned
    args,           \* the arguments the call was made with, where noted
    events,         \* the external calls it made, in order
    det_arg         \* the <<image, parameters>> it gave the detector, or None

bvars == <<params, res, img, img_file, src_img, src_img_file, gen_board, gpar,
           gbak, op, err, ret, args, events, det_arg>>

\* the session as one value, for the operations below
Cur ==
    [params |-> params, res |-> res, img |-> img, img_file |-> img_file,
     src_img |-> src_img, src_img_file |-> src_img_file,
     gen_board |-> gen_board, gpar |-> gpar, gbak |-> gbak,
     op |-> op, err |-> err, ret |-> ret, args |-> args, events |-> events,
     det_arg |-> det_arg]

Becomes(s) ==
    /\ params' = s.params
    /\ res' = s.res
    /\ img' = s.img
    /\ img_file' = s.img_file
    /\ src_img' = s.src_img
    /\ src_img_file' = s.src_img_file
    /\ gen_board' = s.gen_board
    /\ gpar' = s.gpar
    /\ gbak' = s.gbak
    /\ op' = s.op
    /\ err' = s.err
    /\ ret' = s.ret
    /\ args' = s.args
    /\ events' = s.events
    /\ det_arg' = s.det_arg

\* what a call returned: found by load_image, edges and size by detect_edges,
\* val by the queries
NoRet == [found |-> FALSE, edges |-> None, size |-> None, val |-> None]

\* a call starts: nothing raised, nothing returned, no external call made
Call(s, name) ==
    [s EXCEPT !.op = name, !.err = None, !.ret = NoRet, !.args = None,
              !.events = <<>>, !.det_arg = None]

\* a call that raises before it changed anything
Raise(s, name, e) == [Call(s, name) EXCEPT !.err = Some(e)]

\* the identity of a newly allocated buffer that self._img is about to hold:
\* the first one that self._src_img does not refer to
Fresh(s) == IF s.src_img # None /\ s.src_img[1].buf = 1 THEN 2 ELSE 1

\* the state GrBoard.__init__ sets before it generates or loads
Blank ==
    [params |-> NewParams, res |-> None, img |-> None, img_file |-> None,
     src_img |-> None, src_img_file |-> None, gen_board |-> FALSE,
     gpar |-> InitGpar, gbak |-> InitGbak,
     op |-> "init", err |-> None, ret |-> NoRet, args |-> None,
     events |-> <<>>, det_arg |-> None]

\* ---------------------------------------------------------- operations
\* GrBoard.transform_image
TransformOk(rect) == rect # None /\ Len(rect[1]) = 4

\* a transform_image call starts: its argument is noted
TransformCall(s, rect) == [s EXCEPT !.args = Some(<<rect>>)]

\* slip: the number of points is not checked
transform_image_any_rect(s, rect) ==
    IF rect # None /\ s.img = None
    THEN [s EXCEPT !.err = Some("four_point_transform failed")]
    ELSE IF rect # None
    THEN [s EXCEPT !.img = Some(Buf(Fresh(s), Warp(s.img[1].px, rect[1]))),
                   !.params = SetItem(s.params, "TRANSFORM", rect),
                   !.events = Append(@, "transform")]
    ELSE s

transform_image(s, rect) ==
    IF TransformOk(rect) /\ s.img = None
    THEN [s EXCEPT !.err = Some("four_point_transform failed")]
    ELSE IF TransformOk(rect)
    THEN [s EXCEPT !.img = Some(Buf(Fresh(s), Warp(s.img[1].px, rect[1]))),
                   !.params = SetItem(s.params, "TRANSFORM", rect),
                   !.events = Append(@, "transform")]
    ELSE s

\* slip: only the black list is normalised
Normalized_black_only(out) ==
    IF out = None THEN None
    ELSE Some([out[1] EXCEPT
                 !.stones_b = IF @ = None THEN Some(<<>>) ELSE @])

\* the lists process() leaves in the result: None becomes an empty array
Normalized(out) ==
    IF out = None THEN None
    ELSE Some([out[1] EXCEPT
                 !.stones_b = IF @ = None THEN Some(<<>>) ELSE @,
                 !.stones_w = IF @ = None THEN Some(<<>>) ELSE @])

\* slip: a generated board is given to the detector
process_ignores_gen(s, out) ==
    IF s.img = None
    THEN [s EXCEPT !.res = None]
    ELSE [s EXCEPT !.res = Normalized(out),
                   !.events = Append(@, "detect"),
                   !.det_arg = Some(<<s.img[1].px, s.params>>)]

\* slip: the detector is given the source image
process_on_source(s, out) ==
    IF s.img = None \/ s.gen_board
    THEN [s EXCEPT !.res = None]
    ELSE [s EXCEPT !.res = Normalized(out),
                   !.events = Append(@, "detect"),
                   !.det_arg = Some(<<IF s.src_img = None THEN s.img[1].px
                                      ELSE s.src_img[1].px, s.params>>)]

\* GrBoard.process; out is what process_img returns if it is called
process(s, out) ==
    IF s.img = None \/ s.gen_board
    THEN [s EXCEPT !.res = None]
    ELSE [s EXCEPT !.res = Normalized(out),
                   !.events = Append(@, "detect"),
                   !.det_arg = Some(<<s.img[1].px, s.params>>)]

\* slip: the dictionary is read and not assigned
load_params_unassigned(s, f) ==
    [s EXCEPT !.events = Append(@, "load_params")]

\* GrBoard.load_params: the artifact's dictionary is assigned
load_params(s, f) ==
    [s EXCEPT !.params = Assign(s.params, json_load(s.gpar[f][1])),
              !.events = Append(@, "load_params")]

\* GrBoard.save_params; target is the artifact of the image file named, or
\* of the session's image file.  Path(None) raises a TypeError.
save_params(s, filename, f_bak) ==
    IF filename = None /\ s.img_file = None
    THEN Raise(s, "save_params", "TypeError")
    ELSE LET target == IF filename = None THEN s.img_file[1] ELSE filename[1]
         IN  [Call(s, "save_params") EXCEPT
                 !.gbak = IF s.gpar[target] # None /\ f_bak
                          THEN [@ EXCEPT ![target] = s.gpar[target]] ELSE @,
                 !.gpar = [@ EXCEPT
                              ![target] = Some(json_dump(todict(s.params)))],
                 !.ret = [NoRet EXCEPT !.val = Some(target)],
                 !.events = <<"write_params">>]

\* slip: the previous result survives the load
LoadDecoded_keeps_res(s, f) ==
    [s EXCEPT !.gen_board = FALSE, !.img_file = Some(f),
              !.src_img_file = Some(f),
              !.img = Some(Buf(1, Decoded(f))),
              !.src_img = Some(Buf(2, Decoded(f)))]

\* slip: the source image is the decoded buffer itself, not a copy of it
LoadDecoded_no_copy(s, f) ==
    [s EXCEPT !.gen_board = FALSE, !.img_file = Some(f),
              !.src_img_file = Some(f),
              !.img = Some(Buf(1, Decoded(f))),
              !.src_img = Some(Buf(1, Decoded(f))),
              !.res = None]

\* GrBoard.load_image after a successful decode
LoadDecoded(s, f) ==
    [s EXCEPT !.gen_board = FALSE, !.img_file = Some(f),
              !.src_img_file = Some(f),
              !.img = Some(Buf(1, Decoded(f))),
              !.src_img = Some(Buf(2, Decoded(f))),
              !.res = None]

LoadParamsStep(s, f, f_with_params) ==
    IF f_with_params /\ s.gpar[f] # None
    THEN [load_params(s, f) EXCEPT !.ret.found = TRUE]
    ELSE s

\* slip: the transform is applied only when an artifact was loaded
LoadTransformStep_found_only(s) ==
    IF s.ret.found /\ s.params["TRANSFORM"] # None
    THEN transform_image(s, s.params["TRANSFORM"])
    ELSE s

LoadTransformStep(s) ==
    IF s.params["TRANSFORM"] # None
    THEN transform_image(s, s.params["TRANSFORM"])
    ELSE s

LoadProcessStep(s, f_process, out) == IF f_process THEN process(s, out) ELSE s

\* a load_image call starts: its arguments are noted
LoadCall(s, f, f_with_params, f_process) ==
    [s EXCEPT !.args = Some(<<f, f_with_params, f_process>>)]

\* slip: the detector runs before the transform is applied
load_image_detect_first(s, f, f_with_params, f_process, out) ==
    IF f \notin GoodFiles
    THEN LoadCall(Raise(s, "load_image", "Image file not found"),
                  f, f_with_params, f_process)
    ELSE LoadTransformStep(
             LoadProcessStep(
                 LoadParamsStep(
                     LoadDecoded(
                         LoadCall(Call(s, "load_image"), f, f_with_params,
                                  f_process),
                         f),
                     f, f_with_params),
                 f_process, out))

\* slip: the file names are stored before the decode is checked
load_image_names_first(s, f, f_with_params, f_process, out) ==
    IF f \notin GoodFiles
    THEN [LoadCall(Raise(s, "load_image", "Image file not found"),
                   f, f_with_params, f_process)
             EXCEPT !.img_file = Some(f), !.src_img_file = Some(f)]
    ELSE LoadProcessStep(
             LoadTransformStep(
                 LoadParamsStep(
                     LoadDecoded(
                         LoadCall(Call(s, "load_image"), f, f_with_params,
                                  f_process),
                         f),
                     f, f_with_params)),
             f_process, out)

load_image(s, f, f_with_params, f_process, out) ==
    IF f \notin GoodFiles
    THEN LoadCall(Raise(s, "load_image", "Image file not found"),
                  f, f_with_params, f_process)
    ELSE LoadProcessStep(
             LoadTransformStep(
                 LoadParamsStep(
                     LoadDecoded(
                         LoadCall(Call(s, "load_image"), f, f_with_params,
                                  f_process),
                         f),
                     f, f_with_params)),
             f_process, out)

\* slip: the stored result is dropped
generate_clears_res(s, shape) ==
    [Call(s, "generate") EXCEPT
        !.img = Some(Buf(Fresh(s), Generated(shape))),
        !.img_file = None,
        !.gen_board = TRUE,
        !.res = None]

\* GrBoard.generate
generate(s, shape) ==
    [Call(s, "generate") EXCEPT
        !.img = Some(Buf(Fresh(s), Generated(shape))),
        !.img_file = None,
        !.gen_board = TRUE]

\* what cv2.imwrite does: it writes the file and returns True, it raises, or
\* it writes nothing and returns False
WriteOutcomes == {"written", "raises", "returns False"}

FailedWrites == {"raises", "returns False"}

\* slip: an absent image is not reported
save_image_silent(s, filename, max_size, written) ==
    IF s.img = None
    THEN Call(s, "save_image")
    ELSE IF written = "raises"
    THEN [Raise(s, "save_image", "imwrite failed") EXCEPT
             !.events = <<"imwrite">>]
    ELSE [Call(s, "save_image") EXCEPT
             !.img_file = IF filename = None THEN s.img_file ELSE filename,
             !.gen_board = FALSE,
             !.events = <<"imwrite">>]

\* GrBoard.save_image; written is what cv2.imwrite does, whose return value
\* is not looked at
save_image(s, filename, max_size, written) ==
    IF s.img = None
    THEN Raise(s, "save_image", "Image was not loaded")
    ELSE IF written = "raises"
    THEN [Raise(s, "save_image", "imwrite failed") EXCEPT
             !.events = <<"imwrite">>]
    ELSE [Call(s, "save_image") EXCEPT
             !.img_file = IF filename = None THEN s.img_file ELSE filename,
             !.gen_board = FALSE,
             !.events = <<"imwrite">>]

\* GrBoard.save_sgf; the game file written is not read again and is noted
\* as an event only
save_sgf(s, filename) ==
    IF s.res = None
    THEN Raise(s, "save_sgf", "Recognition results are not available")
    ELSE IF filename = None /\ s.img_file = None
    THEN Raise(s, "save_sgf", "TypeError")
    ELSE [Call(s, "save_sgf") EXCEPT
             !.ret = [NoRet EXCEPT
                         !.val = IF filename = None THEN s.img_file
                                 ELSE filename],
             !.events = <<"write_sgf">>]

\* slip: a generated board is given to the edge detector
detect_edges_ignores_gen(s, out) ==
    IF s.img = None
    THEN Call(s, "detect_edges")
    ELSE [Call(s, "detect_edges") EXCEPT
             !.params = SetItem(SetItem(s.params, "BOARD_EDGES", Some(out[1])),
                                "BOARD_SIZE", Some(out[2])),
             !.ret = [NoRet EXCEPT !.edges = Some(out[1]),
                                   !.size = Some(out[2])],
             !.events = <<"detect_board">>]

\* GrBoard.detect_edges; out is what detect_board returns if it is called
detect_edges(s, out) ==
    IF s.img = None \/ s.gen_board
    THEN Call(s, "detect_edges")
    ELSE [Call(s, "detect_edges") EXCEPT
             !.params = SetItem(SetItem(s.params, "BOARD_EDGES", Some(out[1])),
                                "BOARD_SIZE", Some(out[2])),
             !.ret = [NoRet EXCEPT !.edges = Some(out[1]),
                                   !.size = Some(out[2])],
             !.events = <<"detect_board">>]

\* slip: the radius follows the x factor
resize_stone_radius_x(st, scale) ==
    [st EXCEPT ![GR_X] = IntMul(st[GR_X], scale[1]),
               ![GR_Y] = IntMul(st[GR_Y], scale[2]),
               ![GR_R] = IntMul(st[GR_R], scale[1])]

\* resize_stones inside GrBoard.resize_board
resize_stone(st, scale) ==
    [st EXCEPT ![GR_X] = IntMul(st[GR_X], scale[1]),
               ![GR_Y] = IntMul(st[GR_Y], scale[2]),
               ![GR_R] = IntMul(st[GR_R], RatMax(scale[1], scale[2]))]

resize_stones(sts, scale) ==
    Some([i \in DOMAIN sts[1] |-> resize_stone(sts[1][i], scale)])

ResizedRes(r, scale) ==
    [r EXCEPT
        !.stones_b = resize_stones(r.stones_b, scale),
        !.stones_w = resize_stones(r.stones_w, scale),
        !.spacing = <<RatMul(r.spacing[1], scale[1]),
                      RatMul(r.spacing[2], scale[2])>>,
        !.edges = << <<RatMul(r.edges[1][1], scale[1]),
                       RatMul(r.edges[1][2], scale[2])>>,
                     <<RatMul(r.edges[2][1], scale[1]),
                       RatMul(r.edges[2][2], scale[2])>> >>]

\* slip: the source image is rescaled along with the image
resize_board_inplace(s, max_size, scale, out) ==
    IF s.img = None
    THEN Raise(s, "resize_board", "resize2 failed")
    ELSE [Call(s, "resize_board") EXCEPT
             !.img = Some(Buf(Fresh(s), Rescale(s.img[1].px, out))),
             !.src_img = IF @ = None THEN None
                         ELSE Some(Buf(@[1].buf, Rescale(@[1].px, out))),
             !.res = IF s.res = None THEN None
                     ELSE Some(ResizedRes(s.res[1], out)),
             !.events = <<"resize2">>]

\* GrBoard.resize_board.  resize2 is given the image and max_size only and
\* out is the scale it returns, which replaces the scale argument: the
\* caller's scale is never read.
resize_board(s, max_size, scale, out) ==
    IF s.img = None
    THEN Raise(s, "resize_board", "resize2 failed")
    ELSE [Call(s, "resize_board") EXCEPT
             !.img = Some(Buf(Fresh(s), Rescale(s.img[1].px, out))),
             !.res = IF s.res = None THEN None
                     ELSE Some(ResizedRes(s.res[1], out)),
             !.events = <<"resize2">>]

\* GrBoard.params setter
set_params(s, p) ==
    [Call(s, "set_params") EXCEPT
        !.params = Assign(s.params, p),
        !.gen_board = FALSE]

\* GrBoard.image setter; the caller's buffer has identity 0
set_image(s, im) ==
    [Call(s, "set_image") EXCEPT
        !.img = Some(im),
        !.gen_board = FALSE,
        !.src_img = IF s.src_img = None
                    THEN Some(Buf(1, im.px))
                    ELSE s.src_img]

\* slip: BOARD_SIZE is left in the parameters
reset_image_keeps_size(s) ==
    [Call(s, "reset_image") EXCEPT
        !.img = s.src_img,
        !.params = SetItem(SetItem(s.params, "TRANSFORM", None),
                           "BOARD_EDGES", None)]

\* slip: the image becomes a copy of the source image
reset_image_copies(s) ==
    [Call(s, "reset_image") EXCEPT
        !.img = IF s.src_img = None THEN None
                ELSE Some(Buf(Fresh(s), s.src_img[1].px)),
        !.params = SetItem(SetItem(SetItem(s.params, "TRANSFORM", None),
                                   "BOARD_EDGES", None),
                           "BOARD_SIZE", None)]

\* GrBoard.reset_image
reset_image(s) ==
    [Call(s, "reset_image") EXCEPT
        !.img = s.src_img,
        !.params = SetItem(SetItem(SetItem(s.params, "TRANSFORM", None),
                                   "BOARD_EDGES", None),
                           "BOARD_SIZE", None)]

\* GrBoard.can_reset_image: np.any(self._img != self._src_img); an image
\* compared with None differs from it everywhere
can_reset_image(s) ==
    /\ s.img # None
    /\ (s.src_img = None \/ s.img[1].px # s.src_img[1].px)

\* ------------------------------------------------------------- queries
\* GrBoard.board_size
board_size_params_first(s) ==
    IF s.params["BOARD_SIZE"] # None THEN s.params["BOARD_SIZE"][1]
    ELSE IF s.res = None THEN DEF_BOARD_SIZE
    ELSE s.res[1].board_size

board_size(s) ==
    IF s.res = None
    THEN IF s.params["BOARD_SIZE"] # None THEN s.params["BOARD_SIZE"][1]
         ELSE DEF_BOARD_SIZE
    ELSE s.res[1].board_size

\* GrBoard.black_stones, white_stones, stones: the lists, or None
black_stones(s) == IF s.res = None THEN None ELSE s.res[1].stones_b

white_stones(s) == IF s.res = None THEN None ELSE s.res[1].stones_w

stones(s) == [B |-> s.res[1].stones_b, W |-> s.res[1].stones_w]

\* GrBoard.all_stones: black then white, each with its colour appended
all_stones(s) ==
    (IF black_stones(s) = None THEN <<>>
     ELSE [i \in DOMAIN black_stones(s)[1] |->
              Append(black_stones(s)[1][i], "B")]) \o
    (IF white_stones(s) = None THEN <<>>
     ELSE [i \in DOMAIN white_stones(s)[1] |->
              Append(white_stones(s)[1][i], "W")])

\* characters: str.upper, ord and int on the labels that are looked up
UpperCase == <<"A", "B", "C", "D", "E", "F", "G", "H", "I", "J", "K", "L", "M",
               "N", "O", "P", "Q", "R", "S", "T", "U", "V", "W", "X", "Y", "Z">>

LowerCase == <<"a", "b", "c", "d", "e", "f", "g", "h", "i", "j", "k", "l", "m",
               "n", "o", "p", "q", "r", "s", "t", "u", "v", "w", "x", "y", "z">>

DigitChars == <<"0", "1", "2", "3", "4", "5", "6", "7", "8", "9">>

upper(ch) ==
    IF \E i \in DOMAIN LowerCase : LowerCase[i] = ch
    THEN UpperCase[CHOOSE i \in DOMAIN LowerCase : LowerCase[i] = ch]
    ELSE ch

\* the code point of an upper-case letter
ord(ch) == 64 + (CHOOSE i \in DOMAIN UpperCase : UpperCase[i] = ch)

\* int() of a string of decimal digits
RECURSIVE int(_)
int(chars) ==
    IF Len(chars) = 1
    THEN (CHOOSE i \in DOMAIN DigitChars : DigitChars[i] = chars[1]) - 1
    ELSE 10 * int(SubSeq(chars, 1, Len(chars) - 1)) +
         (CHOOSE i \in DOMAIN DigitChars : DigitChars[i] = chars[Len(chars)]) - 1

\* gr.find_position: the first stone at grid position (a, b), or None
find_position(a, b, sts) ==
    LET hits == {i \in DOMAIN sts : sts[i][GR_A] = a /\ sts[i][GR_B] = b}
    IN  IF hits = {} THEN None
        ELSE Some(sts[CHOOSE i \in hits : \A j \in hits : i <= j])

\* gr.find_coord: the first stone whose radius covers pixel (x, y), or None
find_coord(x, y, sts) ==
    LET hits == {i \in DOMAIN sts :
                   /\ sts[i][GR_X] - sts[i][GR_R] <= x
                   /\ x <= sts[i][GR_X] + sts[i][GR_R]
                   /\ sts[i][GR_Y] - sts[i][GR_R] <= y
                   /\ y <= sts[i][GR_Y] + sts[i][GR_R]}
    IN  IF hits = {} THEN None
        ELSE Some(sts[CHOOSE i \in hits : \A j \in hits : i <= j])

\* slip: the column letters skip I, as the letters printed on a board do
LabelColumn_skips_I(lbl) ==
    LET k == ord(upper(lbl[1])) - ord("A") + 1
    IN  IF k > 9 THEN k - 1 ELSE k

\* the column a label names: ord(s.upper()[0]) - ord('A') + 1
LabelColumn(lbl) == ord(upper(lbl[1])) - ord("A") + 1

\* the row a label names: int(s[1:len(s)])
LabelRow(lbl) == int(Tail(lbl))

\* _find inside GrBoard.find_stone
find(c, p, lbl, sts) ==
    IF c # None THEN find_coord(c[1][1], c[1][2], sts[1])
    ELSE IF p # None THEN find_position(p[1][1], p[1][2], sts[1])
    ELSE IF lbl # None
    THEN find_position(LabelColumn(lbl[1]), LabelRow(lbl[1]), sts[1])
    ELSE None

\* GrBoard.find_stone: <<stone, colour>>
find_stone(s, c, p, lbl, bw) ==
    IF s.res = None THEN <<None, None>>
    ELSE IF bw # None THEN <<find(c, p, lbl, stones(s)[bw[1]]), bw>>
    ELSE LET b == find(c, p, lbl, black_stones(s))
             w == find(c, p, lbl, white_stones(s))
         IN  IF b # None THEN <<b, Some("B")>>
             ELSE IF w # None THEN <<w, Some("W")>>
             ELSE <<w, None>>

\* slip: the stone at the position itself is returned with the others
find_nearby_with_self(s, pos, d) ==
    IF pos = None THEN None
    ELSE LET lo_a == IF pos[1][GR_A] - d >= 1 THEN pos[1][GR_A] - d ELSE 1
             hi_a == IF pos[1][GR_A] + d <= board_size(s)
                     THEN pos[1][GR_A] + d ELSE board_size(s)
             lo_b == IF pos[1][GR_B] - d >= 1 THEN pos[1][GR_B] - d ELSE 1
             hi_b == IF pos[1][GR_B] + d <= board_size(s)
                     THEN pos[1][GR_B] + d ELSE board_size(s)
             near(st) ==
                 /\ lo_a <= st[GR_A] /\ st[GR_A] <= hi_a
                 /\ lo_b <= st[GR_B] /\ st[GR_B] <= hi_b
         IN  Some(SelectSeq(all_stones(s), near))

\* GrBoard.find_nearby; pos is a stone record, or None
find_nearby(s, pos, d) ==
    IF pos = None THEN None
    ELSE LET lo_a == IF pos[1][GR_A] - d >= 1 THEN pos[1][GR_A] - d ELSE 1
             hi_a == IF pos[1][GR_A] + d <= board_size(s)
                     THEN pos[1][GR_A] + d ELSE board_size(s)
             lo_b == IF pos[1][GR_B] - d >= 1 THEN pos[1][GR_B] - d ELSE 1
             hi_b == IF pos[1][GR_B] + d <= board_size(s)
                     THEN pos[1][GR_B] + d ELSE board_size(s)
             near(st) ==
                 /\ ~(st[GR_A] = pos[1][GR_A] /\ st[GR_B] = pos[1][GR_B])
                 /\ lo_a <= st[GR_A] /\ st[GR_A] <= hi_a
                 /\ lo_b <= st[GR_B] /\ st[GR_B] <= hi_b
         IN  Some(SelectSeq(all_stones(s), near))

\* =================================================================
\* ImageMask (gr/ui_extra.py)
\* =================================================================

\* is_on: point c lies on the segment from a to b
collinear(a, b, c) == (b[1] - a[1]) * (c[2] - a[2]) = (c[1] - a[1]) * (b[2] - a[2])

within(p, q, r) == (p <= q /\ q <= r) \/ (r <= q /\ q <= p)

is_on(a, b, c) ==
    /\ collinear(a, b, c)
    /\ IF a[1] # b[1] THEN within(a[1], c[1], b[1]) ELSE within(a[2], c[2], b[2])

\* slip: the window starts at c instead of one pixel before it
is_on_w_no_offset(a, b, c, delta) ==
    \E i \in 0..(delta * 3 - 1) : \E j \in 0..(delta * 3 - 1) :
        is_on(a, b, <<c[1] + i, c[2] + j>>)

\* is_on_w: some point of the window around c lies on the segment
is_on_w(a, b, c, delta) ==
    \E i \in 0..(delta * 3 - 1) : \E j \in 0..(delta * 3 - 1) :
        is_on(a, b, <<c[1] + i - 1, c[2] + j - 1>>)

VARIABLES
    image_shape,    \* self.image_shape: <<height, width>>
    min_dist,       \* self.min_dist
    allow_change,   \* self.allow_change; the handlers are bound only if set
    mask,           \* self.mask: <<left, top, right, bottom>>
    mask_rect,      \* the canvas rectangle item: its coordinates, or None
    mask_area,      \* the shading polygons: the mask they were drawn for, or None
    last_cursor,    \* self.last_cursor
    cursor,         \* the cursor the canvas is configured with
    drag_side,      \* self.drag_side
    mop,            \* the event or call that came last
    ptr             \* where the pointer was if that was a drag movement, or None

mvars == <<image_shape, min_dist, allow_change, mask, mask_rect, mask_area,
           last_cursor, cursor, drag_side, mop, ptr>>

vars == <<bvars, mvars>>

MCur ==
    [image_shape |-> image_shape, min_dist |-> min_dist,
     allow_change |-> allow_change, mask |-> mask, mask_rect |-> mask_rect,
     mask_area |-> mask_area, last_cursor |-> last_cursor, cursor |-> cursor,
     drag_side |-> drag_side, mop |-> mop, ptr |-> ptr]

MBecomes(m) ==
    /\ image_shape' = m.image_shape
    /\ min_dist' = m.min_dist
    /\ allow_change' = m.allow_change
    /\ mask' = m.mask
    /\ mask_rect' = m.mask_rect
    /\ mask_area' = m.mask_area
    /\ last_cursor' = m.last_cursor
    /\ cursor' = m.cursor
    /\ drag_side' = m.drag_side
    /\ mop' = m.mop
    /\ ptr' = m.ptr

MStarts(m) ==
    /\ image_shape = m.image_shape
    /\ min_dist = m.min_dist
    /\ allow_change = m.allow_change
    /\ mask = m.mask
    /\ mask_rect = m.mask_rect
    /\ mask_area = m.mask_area
    /\ last_cursor = m.last_cursor
    /\ cursor = m.cursor
    /\ drag_side = m.drag_side
    /\ mop = m.mop
    /\ ptr = m.ptr

CURSORS == <<"left_side", "top_side", "right_side", "bottom_side">>

\* slip: the right edge is not inset
default_mask_right_at_edge(m) ==
    [m EXCEPT !.mask = <<m.min_dist, m.min_dist,
                         m.image_shape[2],
                         m.image_shape[1] - m.min_dist>>]

\* ImageMask.default_mask
default_mask(m) ==
    [m EXCEPT !.mask = <<m.min_dist, m.min_dist,
                         m.image_shape[2] - m.min_dist,
                         m.image_shape[1] - m.min_dist>>]

\* ImageMask.random_mask; r holds the four numbers random.randint returns
random_mask(m, r) == [m EXCEPT !.mask = r]

\* the ranges random_mask draws from: int(w / 2), int(h / 2) are the centre
RandomMasks(m) ==
    LET cw == m.image_shape[2] \div 2
        ch == m.image_shape[1] \div 2
    IN  (0..cw) \X (0..ch) \X ((cw + 1)..m.image_shape[2]) \X
        ((ch + 1)..m.image_shape[1])

\* ImageMask.draw_mask_shading
draw_mask_shading(m) == [m EXCEPT !.mask_area = Some(m.mask)]

\* ImageMask.draw_mask_rect
draw_mask_rect(m) == [m EXCEPT !.mask_rect = Some(m.mask)]

\* ImageMask.show
show(m) == draw_mask_rect(draw_mask_shading(m))

\* ImageMask.hide
hide(m) == [m EXCEPT !.mask_area = None, !.mask_rect = None]

\* canvas.canvasx / canvasy: the canvas is not scrolled
canvasx(x) == x + 0

canvasy(y) == y + 0

\* slip: the top edge is tried before the left edge
get_mask_rect_side_top_first(m, x, y) ==
    IF m.mask_rect = None THEN None
    ELSE LET p == <<canvasx(x), canvasy(y)>>
             b == m.mask_rect[1]
         IN  IF is_on_w(<<b[1], b[2]>>, <<b[3], b[2]>>, p, 1) THEN Some(1)
             ELSE IF is_on_w(<<b[1], b[2]>>, <<b[1], b[4]>>, p, 1) THEN Some(0)
             ELSE IF is_on_w(<<b[3], b[2]>>, <<b[3], b[4]>>, p, 1) THEN Some(2)
             ELSE IF is_on_w(<<b[1], b[4]>>, <<b[3], b[4]>>, p, 1) THEN Some(3)
             ELSE None

\* ImageMask.get_mask_rect_side: 0 left, 1 top, 2 right, 3 bottom, or None
get_mask_rect_side(m, x, y) ==
    IF m.mask_rect = None THEN None
    ELSE LET p == <<canvasx(x), canvasy(y)>>
             b == m.mask_rect[1]
         IN  IF is_on_w(<<b[1], b[2]>>, <<b[1], b[4]>>, p, 1) THEN Some(0)
             ELSE IF is_on_w(<<b[1], b[2]>>, <<b[3], b[2]>>, p, 1) THEN Some(1)
             ELSE IF is_on_w(<<b[3], b[2]>>, <<b[3], b[4]>>, p, 1) THEN Some(2)
             ELSE IF is_on_w(<<b[1], b[4]>>, <<b[3], b[4]>>, p, 1) THEN Some(3)
             ELSE None

\* ImageMask.motion_callback
motion_callback(m, x, y) ==
    LET side == get_mask_rect_side(m, x, y)
        c == IF side = None THEN None ELSE Some(CURSORS[side[1] + 1])
    IN  IF c = None /\ m.last_cursor # None
        THEN [m EXCEPT !.cursor = "", !.last_cursor = None]
        ELSE IF c # None /\ m.last_cursor # c
        THEN [m EXCEPT !.cursor = c[1], !.last_cursor = c]
        ELSE m

Max(a, b) == IF a >= b THEN a ELSE b

Min(a, b) == IF a <= b THEN a ELSE b

\* slip: dragging the left edge moves the top edge with it
DragMove_corner(m, side, p) ==
    IF side = 0 THEN [m.mask EXCEPT ![1] = Max(p[1], m.min_dist),
                                    ![2] = Max(p[2], m.min_dist)]
    ELSE IF side = 1 THEN [m.mask EXCEPT ![2] = Max(p[2], m.min_dist)]
    ELSE IF side = 2
    THEN [m.mask EXCEPT ![3] = Min(p[1], m.image_shape[2] - m.min_dist)]
    ELSE [m.mask EXCEPT ![4] = Min(p[2], m.image_shape[1] - m.min_dist)]

\* the edge drag_callback moves, and the coordinate it gives it
DragMove(m, side, p) ==
    IF side = 0 THEN [m.mask EXCEPT ![1] = Max(p[1], m.min_dist)]
    ELSE IF side = 1 THEN [m.mask EXCEPT ![2] = Max(p[2], m.min_dist)]
    ELSE IF side = 2
    THEN [m.mask EXCEPT ![3] = Min(p[1], m.image_shape[2] - m.min_dist)]
    ELSE [m.mask EXCEPT ![4] = Min(p[2], m.image_shape[1] - m.min_dist)]

\* slip: every movement that finds an edge latches it anew
drag_callback_relatches(m, x, y) ==
    LET hit == get_mask_rect_side(m, x, y)
        side == IF hit = None THEN m.drag_side ELSE hit
    IN  IF side = None THEN m
        ELSE LET moved == DragMove(m, side[1], <<canvasx(x), canvasy(y)>>)
             IN  [m EXCEPT !.drag_side = side,
                           !.mask = moved,
                           !.mask_rect = IF @ = None THEN None ELSE Some(moved),
                           !.mask_area = Some(moved)]

\* ImageMask.drag_callback
drag_callback(m, x, y) ==
    LET side == IF m.drag_side = None THEN get_mask_rect_side(m, x, y)
                ELSE m.drag_side
    IN  IF side = None THEN m
        ELSE LET moved == DragMove(m, side[1], <<canvasx(x), canvasy(y)>>)
             IN  [m EXCEPT !.drag_side = side,
                           !.mask = moved,
                           !.mask_rect = IF @ = None THEN None ELSE Some(moved),
                           !.mask_area = Some(moved)]

\* slip: the latched edge survives the release
end_drag_callback_keeps_latch(m) == m

\* ImageMask.end_drag_callback
end_drag_callback(m) == [m EXCEPT !.drag_side = None]

\* ImageMask.__init__ without an initial mask
NewMask(shape, dist, change, f_show) ==
    LET m0 == default_mask(
                  [image_shape |-> shape, min_dist |-> dist,
                   allow_change |-> change, mask |-> <<0, 0, 0, 0>>,
                   mask_rect |-> None, mask_area |-> None, last_cursor |-> None,
                   cursor |-> "", drag_side |-> None,
                   mop |-> "init", ptr |-> None])
    IN  IF f_show THEN show(m0) ELSE m0

\* where the pointer can be
PointerX == 0..ShapeW
PointerY == 0..ShapeH

\* a bound handler runs; an unbound one leaves the mask alone
Handled(m, after) == IF m.allow_change THEN after ELSE m

\* the mask after an event or a call: what came last is noted
Event(m, name) == [m EXCEPT !.mop = name, !.ptr = None]

\* the mask after a drag movement: the pointer's place is noted too
DragEvent(m, x, y) == [m EXCEPT !.mop = "drag", !.ptr = Some(<<x, y>>)]

\* the pointer moves to (x, y) with no button held
MotionTo(x, y) ==
    /\ MBecomes(Event(Handled(MCur, motion_callback(MCur, x, y)), "motion"))
    /\ UNCHANGED bvars

Motion == \E x \in PointerX, y \in PointerY : MotionTo(x, y)

\* the pointer moves to (x, y) with the button held
DragTo(x, y) ==
    /\ MBecomes(DragEvent(Handled(MCur, drag_callback(MCur, x, y)), x, y))
    /\ UNCHANGED bvars

Drag == \E x \in PointerX, y \in PointerY : DragTo(x, y)

\* drag movements with the pointer on the diagonal of the image
DragDiagonal == \E i \in 0..Min(ShapeW, ShapeH) : DragTo(i, i)

Release ==
    /\ MBecomes(Event(Handled(MCur, end_drag_callback(MCur)), "release"))
    /\ UNCHANGED bvars

Show ==
    /\ MBecomes(Event(show(MCur), "show"))
    /\ UNCHANGED bvars

Hide ==
    /\ MBecomes(Event(hide(MCur), "hide"))
    /\ UNCHANGED bvars

RandomMask ==
    \E r \in RandomMasks(MCur) :
        /\ MBecomes(Event(random_mask(MCur, r), "random_mask"))
        /\ UNCHANGED bvars

DefaultMask ==
    /\ MBecomes(Event(default_mask(MCur), "default_mask"))
    /\ UNCHANGED bvars

\* the two extreme draws of random_mask: every randint at the end of its
\* range that makes the rectangle largest, or at the end that makes it
\* smallest
ExtremeMasks(m) ==
    LET cw == m.image_shape[2] \div 2
        ch == m.image_shape[1] \div 2
    IN  { <<0, 0, m.image_shape[2], m.image_shape[1]>>,
          <<cw, ch, cw + 1, ch + 1>> }

RandomExtreme ==
    \E r \in ExtremeMasks(MCur) :
        /\ MBecomes(Event(random_mask(MCur, r), "random_mask"))
        /\ UNCHANGED bvars

\* ------------------------------------------------------------- actions
\* every value a rescaled result holds stays within the bounds
NumOk(q) == q[1] <= MaxPix /\ q[2] <= MaxDen

StonesOk(sts) ==
    \A i \in DOMAIN sts[1] : \A j \in {GR_X, GR_Y, GR_R} : sts[1][i][j] <= MaxPix

ResOk(r) ==
    r # None =>
        /\ StonesOk(r[1].stones_b) /\ StonesOk(r[1].stones_w)
        /\ \A i \in 1..2 : NumOk(r[1].spacing[i])
        /\ \A i \in 1..2 : \A j \in 1..2 : NumOk(r[1].edges[i][j])

OpsOk(im) == im # None => Len(im[1].px.ops) <= MaxOps

Bounded(s) == OpsOk(s.img) /\ ResOk(s.res)

\* the session becomes s, within the bounds
Step(s) == Bounded(s) /\ Becomes(s)

LoadImage ==
    \E f \in Files, f_with_params \in BOOLEAN, f_process \in BOOLEAN,
       out \in DetOutputs :
        /\ f_process \/ out = None
        /\ Step(load_image(Cur, f, f_with_params, f_process, out))
        /\ UNCHANGED mvars

Generate ==
    \E shape \in Shapes :
        /\ Step(generate(Cur, shape))
        /\ UNCHANGED mvars

\* save_image is called and cv2.imwrite does what written says
SaveImageAs(filename, max_size, written) ==
    /\ Step(save_image(Cur, filename, max_size, written))
    /\ UNCHANGED mvars

SaveImage ==
    \E filename \in {None, Some("b")},
       max_size \in MaxSizes, written \in WriteOutcomes :
        SaveImageAs(filename, max_size, written)

DetectEdges ==
    \E out \in EdgeOutputs :
        /\ Step(detect_edges(Cur, out))
        /\ UNCHANGED mvars

Process ==
    \E out \in DetOutputs :
        /\ Step(process(Call(Cur, "process"), out))
        /\ UNCHANGED mvars

ResizeBoard ==
    \E max_size \in MaxSizes, scale \in ScaleArgs, out \in Scales :
        /\ Step(resize_board(Cur, max_size, scale, out))
        /\ UNCHANGED mvars

SetParams ==
    \E p \in ParamDicts :
        /\ Step(set_params(Cur, p))
        /\ UNCHANGED mvars

SetImage ==
    /\ Step(set_image(Cur, Buf(0, External)))
    /\ UNCHANGED mvars

TransformImage ==
    \E rect \in Rects :
        /\ Step(transform_image(
                    TransformCall(Call(Cur, "transform_image"), rect), rect))
        /\ UNCHANGED mvars

ResetImage ==
    /\ Step(reset_image(Cur))
    /\ UNCHANGED mvars

\* what is noted of a resize_board call: the scale asked for, the result
\* before the call and, when the call before it was a resize_board too, what
\* was noted of that one
ResizeNote(s, scale) ==
    Some(<<scale, s.res,
           IF s.op = "resize_board" /\ s.err = None /\ s.args # None
           THEN Some(<<s.args[1][1], s.args[1][2]>>) ELSE None>>)

\* resize_board called with a scale and no max_size
ResizeScaled ==
    \E scale \in ScaleArgs \ {None}, out \in ResizeOutputs :
        /\ Step([resize_board(Cur, None, scale, out) EXCEPT
                    !.args = ResizeNote(Cur, scale)])
        /\ UNCHANGED mvars

\* GrBoard.__init__: a board is generated, or an image file is loaded
Constructed ==
    { generate(Blank, shape) : shape \in Shapes } \cup
    { load_image(Blank, f, TRUE, TRUE, out) :
        f \in GoodFiles, out \in DetOutputs }

Starts(s) ==
    /\ params = s.params
    /\ res = s.res
    /\ img = s.img
    /\ img_file = s.img_file
    /\ src_img = s.src_img
    /\ src_img_file = s.src_img_file
    /\ gen_board = s.gen_board
    /\ gpar = s.gpar
    /\ gbak = s.gbak
    /\ op = "init"
    /\ err = s.err
    /\ ret = s.ret
    /\ args = s.args
    /\ events = s.events
    /\ det_arg = s.det_arg

\* the mask a session is looked at with, and the session a mask is tried on
OneMask == NewMask(<<ShapeH, ShapeW>>, 1, TRUE, TRUE)

OneBoard == generate(Blank, 1)

Init == MStarts(OneMask) /\ \E s \in Constructed : Starts(s)

MaskInit ==
    /\ Starts(OneBoard)
    /\ \E dist \in 1..MaxMinDist, change \in BOOLEAN, f_show \in BOOLEAN :
           MStarts(NewMask(<<ShapeH, ShapeW>>, dist, change, f_show))

MaskNext ==
    \/ Drag
    \/ Release
    \/ Show
    \/ Hide
    \/ RandomMask
    \/ DefaultMask

MaskSpec == MaskInit /\ [][MaskNext]_vars

\* a constructed mask that is dragged, shown, hidden and reset to the default
DragNext ==
    \/ Drag
    \/ Release
    \/ Show
    \/ Hide
    \/ DefaultMask

DragSpec == MaskInit /\ [][DragNext]_vars

\* a constructed mask that is dragged, randomized and reset to the default
ResetNext ==
    \/ DragDiagonal
    \/ Release
    \/ RandomExtreme
    \/ DefaultMask

ResetSpec == MaskInit /\ [][ResetNext]_vars

\* a constructed mask under the pointer: moved over and dragged
PointerNext ==
    \/ Motion
    \/ Drag

PointerSpec == MaskInit /\ [][PointerNext]_vars

\* a constructed mask in gestures: dragged and released
GestureNext ==
    \/ Drag
    \/ Release

GestureSpec == MaskInit /\ [][GestureNext]_vars

Next ==
    \/ LoadImage
    \/ Generate
    \/ SaveImage
    \/ DetectEdges
    \/ Process
    \/ ResizeBoard
    \/ SetParams
    \/ SetImage
    \/ TransformImage
    \/ ResetImage

Spec == Init /\ [][Next]_vars

\* -------------------------------------------------------------- lookups
\* the decimal digits of n
RECURSIVE Digits(_)
Digits(n) ==
    IF n < 10 THEN <<DigitChars[n + 1]>>
    ELSE Append(Digits(n \div 10), DigitChars[(n % 10) + 1])

\* labels: a column letter followed by a row number, as a string of
\* characters: every column on the first and the last row, every row on the
\* first and the last column, and lower-case letters on the first row
Labels ==
    { <<UpperCase[k]>> \o Digits(n) : k \in 1..MaxCol, n \in {1, MaxRow} } \cup
    { <<UpperCase[k]>> \o Digits(n) : k \in {1, MaxCol}, n \in 1..MaxRow } \cup
    { <<LowerCase[k]>> \o Digits(1) : k \in 1..MaxCol }

\* pixel points and grid positions that are looked up
Points == { <<3, 4>>, <<5, 3>>, <<0, 0>> }

Positions == { <<1, 1>>, <<10, 10>>, <<5, 5>> }

\* find_stone is given a point, a position, a label, or none of them
Queries ==
    { <<Some(c), None, None>> : c \in Points } \cup
    { <<None, Some(p), None>> : p \in Positions } \cup
    { <<None, None, Some(l)>> : l \in Labels } \cup
    { <<None, None, None>> }

Colours == {None, Some("B"), Some("W")}

\* positions find_nearby is asked about: a stone record, or None
NearPositions == {None, Some(S1), Some(S4), Some(<<0, 0, 9, 9, 1>>)}

Deltas == {1, 9}

ProcessStones ==
    \E out \in StoneOutputs :
        /\ Step(process(Call(Cur, "process"), out))
        /\ UNCHANGED mvars

BoardSize ==
    /\ Step([Call(Cur, "board_size") EXCEPT !.ret.val = Some(board_size(Cur))])
    /\ UNCHANGED mvars

FindStone ==
    \E q \in Queries, bw \in Colours :
        /\ Step([Call(Cur, "find_stone") EXCEPT
                    !.args = Some(<<q[1], q[2], q[3], bw>>),
                    !.ret.val = find_stone(Cur, q[1], q[2], q[3], bw)])
        /\ UNCHANGED mvars

FindNearby ==
    \E pos \in NearPositions, d \in Deltas :
        /\ Step([Call(Cur, "find_nearby") EXCEPT
                    !.args = Some(<<pos, d>>),
                    !.ret.val = find_nearby(Cur, pos, d)])
        /\ UNCHANGED mvars

\* a session that is processed, has its edges detected and is queried
QueryNext ==
    \/ ProcessStones
    \/ DetectEdges
    \/ BoardSize
    \/ FindStone
    \/ FindNearby

QuerySpec == Init /\ [][QueryNext]_vars

SaveParams ==
    \E filename \in {None, Some("b")}, f_bak \in BOOLEAN :
        /\ Step(save_params(Cur, filename, f_bak))
        /\ UNCHANGED mvars

\* a fresh session, GrBoard(), on the disk as it is now
FreshBoard(s) == generate([Blank EXCEPT !.gpar = s.gpar, !.gbak = s.gbak], 1)

\* the artifact save_params has just written is loaded into a fresh session
LoadParamsFresh ==
    /\ op = "save_params" /\ err = None
    /\ Step(load_params(Call(FreshBoard(Cur), "load_params"), ret.val[1]))
    /\ UNCHANGED mvars

SaveSgf ==
    \E filename \in {None, Some("b")} :
        /\ Step(save_sgf(Cur, filename))
        /\ UNCHANGED mvars

CanResetImage ==
    /\ Step([Call(Cur, "can_reset_image") EXCEPT
                !.ret.val = Some(can_reset_image(Cur))])
    /\ UNCHANGED mvars

\* load_image without processing
LoadUnprocessed ==
    \E f \in GoodFiles, f_with_params \in BOOLEAN :
        /\ Step(load_image(Cur, f, f_with_params, FALSE, None))
        /\ UNCHANGED mvars

\* a session whose parameters are changed, saved and loaded again
ParamsNext ==
    \/ LoadUnprocessed
    \/ TransformImage
    \/ ResetImage
    \/ DetectEdges
    \/ SaveParams
    \/ LoadParamsFresh

ParamsSpec == Init /\ [][ParamsNext]_vars

\* a session that is loaded, generated, reset, saved and exported
PersistNext ==
    \/ LoadImage
    \/ Generate
    \/ TransformImage
    \/ ResetImage
    \/ SaveImage
    \/ SaveSgf
    \/ CanResetImage

PersistSpec == Init /\ [][PersistNext]_vars

\* what is noted of a call that assigns the image: its argument, the call
\* before it, and the image and the source image before the call
AliasNote(s, a) == Some(<<a, s.op, s.img, s.src_img>>)

ResetNoted ==
    /\ Step([reset_image(Cur) EXCEPT !.args = AliasNote(Cur, None)])
    /\ UNCHANGED mvars

TransformNoted ==
    \E rect \in Rects :
        /\ Step([transform_image(Call(Cur, "transform_image"), rect) EXCEPT
                    !.args = AliasNote(Cur, rect)])
        /\ UNCHANGED mvars

ResizeNoted ==
    \E max_size \in MaxSizes, out \in Scales :
        /\ Step([resize_board(Cur, max_size, None, out) EXCEPT
                    !.args = AliasNote(Cur, max_size)])
        /\ UNCHANGED mvars

\* a session that is loaded, reset, transformed and resized
AliasNext ==
    \/ LoadUnprocessed
    \/ ResetNoted
    \/ TransformNoted
    \/ ResizeNoted

AliasSpec == Init /\ [][AliasNext]_vars

\* load_image; besides its arguments, the call before it and the TRANSFORM
\* the parameters held before it are noted
LoadNoted ==
    \E f \in Files, f_with_params \in BOOLEAN, f_process \in BOOLEAN,
       out \in DetOutputs :
        /\ f_process \/ out = None
        /\ Step([load_image(Cur, f, f_with_params, f_process, out) EXCEPT
                    !.args = Some(<<f, f_with_params, f_process, op,
                                    params["TRANSFORM"]>>)])
        /\ UNCHANGED mvars

\* a session that is loaded again after its parameters were set, its image
\* transformed or reset
CarryNext ==
    \/ LoadNoted
    \/ SetParams
    \/ TransformImage
    \/ ResetImage

CarrySpec == Init /\ [][CarryNext]_vars

\* the points the segment tests are tried on
HitPoints == (0..MaxCoord) \X (0..MaxCoord)

\* a segment from a to b, a point c and a delta are chosen
HitInit ==
    /\ MStarts(OneMask)
    /\ \E a \in HitPoints, b \in HitPoints, c \in HitPoints,
          delta \in 1..MaxDelta :
           Starts([OneBoard EXCEPT !.args = Some(<<a, b, c, delta>>)])

IsOn ==
    /\ op = "init"
    /\ Step([Call(Cur, "is_on") EXCEPT
                !.args = args,
                !.ret.val = Some(is_on(args[1][1], args[1][2], args[1][3]))])
    /\ UNCHANGED mvars

IsOnW ==
    /\ op = "init"
    /\ Step([Call(Cur, "is_on_w") EXCEPT
                !.args = args,
                !.ret.val = Some(is_on_w(args[1][1], args[1][2], args[1][3],
                                         args[1][4]))])
    /\ UNCHANGED mvars

\* the two segment tests, each applied to the chosen points
HitNext ==
    \/ IsOn
    \/ IsOnW

HitSpec == HitInit /\ [][HitNext]_vars

\* a session that is processed and resized by a scale
ResizeNext ==
    \/ Process
    \/ ResizeScaled

ResizeSpec == Init /\ [][ResizeNext]_vars

\* =================================================================
\* Properties
\* =================================================================

\* C1 (as claimed): in every reachable state the result is absent whenever
\* the image is absent or the board is a generated one.
C1_ResultAbsent == (img = None \/ gen_board) => res = None

\* C1 (amended): no operation creates a result in a state where the image
\* is absent or the board is generated: a step that ends in such a state
\* leaves an absent result absent.  A result that exists already is kept by
\* generate and reset_image.
C1_NoResultCreated ==
    [][(res = None /\ (img' = None \/ gen_board')) => res' = None]_vars

\* process() was called with no image and left the result absent
C1_Witness == op = "process" /\ img = None /\ res = None

\* C2: the mask keeps min_dist <= left < right <= width - min_dist and
\* min_dist <= top < bottom <= height - min_dist.
C2_MaskBounds ==
    /\ min_dist <= mask[1] /\ mask[1] < mask[3]
    /\ mask[3] <= image_shape[2] - min_dist
    /\ min_dist <= mask[2] /\ mask[2] < mask[4]
    /\ mask[4] <= image_shape[1] - min_dist

\* C3: after a load, reset_image leaves the image pixel-identical to the
\* source image and TRANSFORM, BOARD_EDGES, BOARD_SIZE cleared.
C3_ResetRestores ==
    (op = "reset_image" /\ src_img_file # None) =>
        /\ img # None /\ src_img # None
        /\ img[1].px = src_img[1].px
        /\ params["TRANSFORM"] = None
        /\ params["BOARD_EDGES"] = None
        /\ params["BOARD_SIZE"] = None

\* reset_image ran on a loaded session whose result had been rescaled
C3_Witness ==
    /\ op = "reset_image" /\ src_img_file # None
    /\ res # None /\ res[1].spacing # <<Rat(1, 1), Rat(1, 1)>>

\* C4: once the source image is set, only a load replaces it: every other
\* operation (transform, resize, process, detect_edges, reset_image, ...)
\* leaves its content unchanged.
C4_SourceKept ==
    [][(src_img # None /\ op' # "load_image") => src_img' = src_img]_vars

\* the image was warped and rescaled and the source image is as decoded
C4_Witness ==
    /\ op = "resize_board" /\ src_img # None /\ img # None
    /\ Len(img[1].px.ops) = 2 /\ img[1].px.ops[1][1] = "transform"
    /\ src_img[1].px.ops = <<>>

\* C5: gen_board changes only by generate setting it and by a load or an
\* image assignment clearing it.
C5_GenFlagSteps ==
    [][gen_board' # gen_board =>
          \/ op' = "generate" /\ gen_board'
          \/ op' \in {"load_image", "set_image"} /\ ~gen_board']_vars

\* C6: process() with no image or on a generated board leaves the result
\* absent and makes no detector call; otherwise it calls the detector once,
\* with the current image and parameters, and the result is what came back.
C6_Process ==
    op = "process" =>
        IF img = None \/ gen_board
        THEN res = None /\ events = <<>> /\ det_arg = None
        ELSE /\ events = <<"detect">>
             /\ det_arg = Some(<<img[1].px, params>>)
             /\ res \in {Normalized(out) : out \in DetOutputs}

\* process() was called on a generated board
C6_Witness ==
    op = "process" /\ gen_board /\ img # None /\ res = None /\ events = <<>>

\* C7: whenever a result exists, its black and its white stone list are
\* present, possibly empty.
C7_StoneLists ==
    res # None => res[1].stones_b # None /\ res[1].stones_w # None

\* a result whose detector run reported no stones was rescaled
C7_Witness ==
    /\ op = "resize_board" /\ res # None
    /\ res[1].stones_b = Some(<<>>) /\ res[1].stones_w = Some(<<>>)

\* what a successful load that does not process is claimed to leave, with
\* the image the session holds afterwards given as expected
LoadedWithoutProcess(expected) ==
    (op = "load_image" /\ err = None /\ ~args[1][3]) =>
        /\ img # None /\ img[1].px = expected
        /\ src_img # None /\ src_img[1].px = Decoded(args[1][1])
        /\ ~gen_board
        /\ res = None
        /\ ret.found = (args[1][2] /\ gpar[args[1][1]] # None)

\* C8 (as claimed): the image is the newly decoded one.
C8_LoadDecodedImage ==
    op = "load_image" => LoadedWithoutProcess(Decoded(args[1][1]))

\* C8 (amended): the image is the newly decoded one, warped when the
\* parameters hold a 4-point TRANSFORM rectangle after the artifact is read.
C8_LoadWarpedImage ==
    op = "load_image" =>
        LoadedWithoutProcess(
            IF TransformOk(params["TRANSFORM"])
            THEN Warp(Decoded(args[1][1]), params["TRANSFORM"][1])
            ELSE Decoded(args[1][1]))

\* a load without processing read the artifact and warped the image
C8_Witness ==
    /\ op = "load_image" /\ err = None /\ ~args[1][3]
    /\ ret.found /\ events = <<"load_params", "transform">>

\* C9: a load that processes reads the artifact, then transforms, then
\* calls the detector, which sees the transformed image and the loaded
\* parameters.
C9_LoadOrder ==
    (op = "load_image" /\ err = None /\ args[1][3]) =>
        LET f == args[1][1]
            found == args[1][2] /\ gpar[f] # None
        IN  /\ events =
                (IF found THEN <<"load_params">> ELSE <<>>) \o
                (IF TransformOk(params["TRANSFORM"]) THEN <<"transform">>
                 ELSE <<>>) \o <<"detect">>
            /\ det_arg = Some(<<img[1].px, params>>)
            /\ found => \A k \in DOMAIN gpar[f][1] :
                            params[k] = json_load(gpar[f][1])[k]
            /\ TransformOk(params["TRANSFORM"]) =>
                   img[1].px = Warp(Decoded(f), params["TRANSFORM"][1])

\* a processing load read the artifact, transformed and detected
C9_Witness ==
    /\ op = "load_image" /\ err = None /\ args[1][3]
    /\ events = <<"load_params", "transform", "detect">>

\* C10: a load of a file that does not decode raises file-not-found and
\* changes nothing in the session.
C10_FailedLoad ==
    [][(op' = "load_image" /\ args'[1][1] \in BadFiles) =>
          /\ err' = Some("Image file not found")
          /\ UNCHANGED <<params, res, img, img_file, src_img, src_img_file,
                         gen_board>>]_vars

\* a failed load on a session that holds a result and a warped image
C10_Witness ==
    /\ op = "load_image" /\ err # None /\ res # None
    /\ img # None /\ img[1].px.ops # <<>>

\* C11: right after a load that applies no transform, the source image has
\* the pixels of the decoded file and the image has the same pixels in a
\* buffer of its own, so that a change made to one buffer is not seen
\* through the other.
C11_DistinctBuffers ==
    (op = "load_image" /\ err = None /\
     \A i \in DOMAIN events : events[i] # "transform") =>
        /\ img # None /\ src_img # None
        /\ src_img[1].px = Decoded(args[1][1])
        /\ img[1].px = Decoded(args[1][1])
        /\ img[1].buf # src_img[1].buf

\* a processing load whose parameters hold a malformed rectangle: nothing
\* was transformed and the detector found stones
C11_Witness ==
    /\ op = "load_image" /\ err = None /\ events = <<"detect">>
    /\ params["TRANSFORM"] = Some(R3) /\ res # None

\* C12: transform_image with no rectangle, or with one that does not have
\* exactly 4 points, raises nothing and leaves the image, the source image,
\* the parameters and the result as they were; with a 4-point rectangle the
\* image (when there is one) becomes the warped image and the parameters
\* hold the rectangle as TRANSFORM.
C12_Transform ==
    [][op' = "transform_image" =>
          LET rect == args'[1][1]
          IN  IF rect = None \/ Len(rect[1]) # 4
              THEN /\ err' = None
                   /\ UNCHANGED <<img, src_img, params, res>>
              ELSE img # None =>
                       /\ err' = None
                       /\ img'[1].px = Warp(img[1].px, rect[1])
                       /\ params' = [params EXCEPT !["TRANSFORM"] = rect]
                       /\ UNCHANGED <<src_img, res>>]_vars

\* a 3-point rectangle was given to a session that holds a result and a
\* 4-point TRANSFORM
C12_Witness ==
    /\ op = "transform_image" /\ args = Some(<<Some(R3)>>)
    /\ params["TRANSFORM"] = Some(R4) /\ res # None /\ err = None

\* C14: detect_edges with no image or on a generated board returns
\* (None, None), makes no detector call and leaves the parameters alone;
\* otherwise BOARD_EDGES and BOARD_SIZE become what the detector returned,
\* the same two values are returned, and the result and the image are
\* unchanged.
C14_DetectEdges ==
    [][op' = "detect_edges" =>
          IF img = None \/ gen_board
          THEN /\ ret'.edges = None /\ ret'.size = None
               /\ events' = <<>>
               /\ UNCHANGED <<params, res, img>>
          ELSE /\ events' = <<"detect_board">>
               /\ ret'.edges # None /\ ret'.size # None
               /\ <<ret'.edges[1], ret'.size[1]>> \in EdgeOutputs
               /\ params' = [params EXCEPT !["BOARD_EDGES"] = ret'.edges,
                                           !["BOARD_SIZE"] = ret'.size]
               /\ UNCHANGED <<res, img>>]_vars

\* detect_edges was called on a generated board that still shows a result
C14_Witness ==
    /\ op = "detect_edges" /\ gen_board /\ res # None
    /\ ret.edges = None /\ ret.size = None /\ events = <<>>

\* the scale resize2 applied in the last rescale of the image
AppliedScale(im) == im[1].px.ops[Len(im[1].px.ops)][2]

\* v is n times the factor f, exactly
Times(n, f, v) == v * f[2] = n * f[1]

\* v is n times the factor f with the fraction dropped, as int() does
TimesInt(n, f, v) == v * f[2] <= n * f[1] /\ n * f[1] < (v + 1) * f[2]

\* the rational q2 is the rational q times the factor f
RatTimes(q, f, q2) == q2[1] * q[2] * f[2] = q[1] * f[1] * q2[2]

Larger(f, g) == IF f[1] * g[2] >= g[1] * f[2] THEN f ELSE g

\* the stones kept their number, order and grid coordinates
SameGrid(old, new) ==
    /\ Len(new[1]) = Len(old[1])
    /\ \A i \in DOMAIN old[1] :
           new[1][i][GR_A] = old[1][i][GR_A] /\ new[1][i][GR_B] = old[1][i][GR_B]

\* spacing and edge rectangle were multiplied by the per-axis factors
GeometryScaled(r, r2, sc) ==
    /\ \A k \in 1..2 : RatTimes(r.spacing[k], sc[k], r2.spacing[k])
    /\ \A i \in 1..2 : \A k \in 1..2 :
           RatTimes(r.edges[i][k], sc[k], r2.edges[i][k])

\* C15 (as claimed): a rescale of a session with a result multiplies each
\* stone's pixel x by the x factor, pixel y by the y factor and radius by
\* the larger factor, and spacing and edges by the per-axis factors, with
\* grid coordinates, number and order of the stones unchanged.
C15_ResizeExact ==
    [][(op' = "resize_board" /\ err' = None /\ res # None) =>
          LET sc == AppliedScale(img')
              r == res[1]
              r2 == res'[1]
          IN  /\ GeometryScaled(r, r2, sc)
              /\ \A l \in {"stones_b", "stones_w"} :
                     /\ SameGrid(r[l], r2[l])
                     /\ \A i \in DOMAIN r[l][1] :
                            /\ Times(r[l][1][i][GR_X], sc[1], r2[l][1][i][GR_X])
                            /\ Times(r[l][1][i][GR_Y], sc[2], r2[l][1][i][GR_Y])
                            /\ Times(r[l][1][i][GR_R], Larger(sc[1], sc[2]),
                                     r2[l][1][i][GR_R])]_vars

\* C15 (amended): the same, with each stone's x, y and radius being the
\* product with its fraction dropped; spacing and edges are exact products.
C15_ResizeTruncated ==
    [][(op' = "resize_board" /\ err' = None /\ res # None) =>
          LET sc == AppliedScale(img')
              r == res[1]
              r2 == res'[1]
          IN  /\ GeometryScaled(r, r2, sc)
              /\ \A l \in {"stones_b", "stones_w"} :
                     /\ SameGrid(r[l], r2[l])
                     /\ \A i \in DOMAIN r[l][1] :
                            /\ TimesInt(r[l][1][i][GR_X], sc[1], r2[l][1][i][GR_X])
                            /\ TimesInt(r[l][1][i][GR_Y], sc[2], r2[l][1][i][GR_Y])
                            /\ TimesInt(r[l][1][i][GR_R], Larger(sc[1], sc[2]),
                                        r2[l][1][i][GR_R])]_vars

\* a result with a stone of each colour was rescaled by (1/2, 2): the black
\* stone's x went from 3 to 1 and its radius from 2 to 4
C15_Witness ==
    /\ op = "resize_board" /\ err = None /\ res # None
    /\ AppliedScale(img) = <<Half, Two>>
    /\ res[1].stones_b = Some(<< <<1, 8, 1, 1, 4>> >>)
    /\ res[1].stones_w = Some(<< <<2, 6, 2, 2, 2>> >>)

\* the second scale is the inverse of the first, axis by axis
Inverse(sa, sb) == \A k \in 1..2 : RatMul(sa[1][k], sb[1][k]) = One

Dist(a, b) == IF a >= b THEN a - b ELSE b - a

\* every stone is within two pixels (one per resize step) of where it was
\* and has the grid coordinates it had
StonesBack(old, new) ==
    /\ SameGrid(old, new)
    /\ \A i \in DOMAIN old[1] :
           /\ Dist(new[1][i][GR_X], old[1][i][GR_X]) <= 2
           /\ Dist(new[1][i][GR_Y], old[1][i][GR_Y]) <= 2

\* C16: resize_board(scale=(sx, sy)) followed by
\* resize_board(scale=(1/sx, 1/sy)) brings every stone's pixel coordinates
\* back to within one pixel per resize step of their original values and
\* leaves every stone's grid coordinates as they were.
C16_ResizeRoundTrip ==
    (/\ op = "resize_board" /\ err = None /\ args # None
     /\ args[1][3] # None /\ args[1][3][1][2] # None
     /\ Inverse(args[1][3][1][1], args[1][1])) =>
        /\ res # None
        /\ StonesBack(args[1][3][1][2][1].stones_b, res[1].stones_b)
        /\ StonesBack(args[1][3][1][2][1].stones_w, res[1].stones_w)

\* the board size the claims expect of the session
ResolvedSize ==
    IF res # None THEN res[1].board_size
    ELSE IF params["BOARD_SIZE"] # None THEN params["BOARD_SIZE"][1]
    ELSE DEF_BOARD_SIZE

\* C13: the board size is the result's whenever a result exists, even if
\* the parameters hold a different BOARD_SIZE; else the parameters' when
\* set; else the default.
C13_BoardSize == op = "board_size" => ret.val = Some(ResolvedSize)

\* the board size was read while the result says 19 and the parameters 9
C13_Witness ==
    /\ op = "board_size" /\ res # None /\ res[1].board_size = 19
    /\ params["BOARD_SIZE"] = Some(9) /\ ret.val = Some(19)

\* C17: a lookup by label, the k-th letter of the alphabet followed by the
\* number n, returns the stone and the colour that a lookup by grid
\* position (k, n) returns, whatever the stones and the colour filter.
C17_LabelIsPosition ==
    (op = "find_stone" /\ args[1][1] = None /\ args[1][2] = None /\
     args[1][3] # None) =>
        \A k \in 1..MaxCol, n \in 1..MaxRow :
            args[1][3][1] \in { <<UpperCase[k]>> \o Digits(n),
                                <<LowerCase[k]>> \o Digits(n) } =>
                ret.val = find_stone(Cur, None, Some(<<k, n>>), None, args[1][4])

\* the label J10 found the white stone at column 10, row 10
C17_Witness ==
    /\ op = "find_stone" /\ args = Some(<<None, None, Some(<<"J", "1", "0">>), None>>)
    /\ ret.val = <<Some(S4), Some("W")>>

\* the stones a lookup with colour filter bw goes through
Considered(bw) ==
    IF res = None THEN {}
    ELSE (IF bw # Some("W")
          THEN {res[1].stones_b[1][i] : i \in DOMAIN res[1].stones_b[1]}
          ELSE {}) \cup
         (IF bw # Some("B")
          THEN {res[1].stones_w[1][i] : i \in DOMAIN res[1].stones_w[1]}
          ELSE {})

\* stone st answers the query: the point is under it, or it is at the
\* position, or at the position the label names
Answers(st, c, p, lbl) ==
    IF c # None
    THEN /\ Dist(c[1][1], st[GR_X]) <= st[GR_R]
         /\ Dist(c[1][2], st[GR_Y]) <= st[GR_R]
    ELSE IF p # None
    THEN st[GR_A] = p[1][1] /\ st[GR_B] = p[1][2]
    ELSE IF lbl # None
    THEN lbl[1] \in { <<UpperCase[st[GR_A]]>> \o Digits(st[GR_B]),
                      <<LowerCase[st[GR_A]]>> \o Digits(st[GR_B]) }
    ELSE FALSE

\* C18: find_stone returns the stone and the colour both absent whenever
\* there is no result or no stone answers the query, in every lookup mode
\* and for every colour filter.
C18_NotFound ==
    (/\ op = "find_stone"
     /\ \A st \in Considered(args[1][4]) :
            ~Answers(st, args[1][1], args[1][2], args[1][3])) =>
        ret.val = <<None, None>>

\* the stones of the result, each with its colour appended
Coloured ==
    IF res = None THEN {}
    ELSE {Append(res[1].stones_b[1][i], "B") : i \in DOMAIN res[1].stones_b[1]}
         \cup
         {Append(res[1].stones_w[1][i], "W") : i \in DOMAIN res[1].stones_w[1]}

\* C19: find_nearby(position, delta) returns exactly the stones of either
\* colour with column in [max(col - delta, 1), min(col + delta, size)] and
\* row in [max(row - delta, 1), min(row + delta, size)], without any stone
\* at the position itself.
C19_Nearby ==
    (op = "find_nearby" /\ args[1][1] # None) =>
        LET col == args[1][1][1][GR_A]
            row == args[1][1][1][GR_B]
            d == args[1][2]
            expected ==
                {st \in Coloured :
                    /\ Max(col - d, 1) <= st[GR_A]
                    /\ st[GR_A] <= Min(col + d, ResolvedSize)
                    /\ Max(row - d, 1) <= st[GR_B]
                    /\ st[GR_B] <= Min(row + d, ResolvedSize)
                    /\ ~(st[GR_A] = col /\ st[GR_B] = row)}
        IN  /\ ret.val # None
            /\ {ret.val[1][i] : i \in DOMAIN ret.val[1]} = expected
            /\ Len(ret.val[1]) = Cardinality(expected)

\* around A1 with delta 9 on a board of 9 lines: the stone at B1 is
\* returned, the one at A1 itself and the one at J10, off the board, are not
C19_Witness ==
    /\ op = "find_nearby" /\ args = Some(<<Some(S1), 9>>)
    /\ res # None /\ res[1].board_size = 9
    /\ ret.val = Some(<<Append(S3, "B")>>)

\* C20: while an edge is latched the dragged edge stops min_dist short of
\* the opposite edge: left never exceeds right - min_dist however far the
\* pointer goes, and likewise top and bottom, right and left, bottom and top.
C20_DragClamp ==
    drag_side # None =>
        /\ mask[1] <= mask[3] - min_dist
        /\ mask[2] <= mask[4] - min_dist

\* ------------------------------------------------------ the mask's edges
\* the rectangle inset by min_dist from every edge of the image
InsetRect ==
    <<min_dist, min_dist, image_shape[2] - min_dist, image_shape[1] - min_dist>>

\* C21: a mask constructed without initial bounds has bounds (min_dist,
\* min_dist, width - min_dist, height - min_dist), and default_mask() after
\* any drags, releases and random_mask calls yields that same rectangle.
C21_DefaultMask == mop \in {"init", "default_mask"} => mask = InsetRect

\* default_mask was called in the middle of a gesture that had moved an edge:
\* the rectangle on the canvas still shows the dragged bounds
C21_Witness ==
    /\ mop = "default_mask" /\ drag_side # None
    /\ mask_rect # None /\ mask_rect # Some(mask)

\* everything of the mask but the note of the last event stays as it is
MaskUnchanged ==
    UNCHANGED <<image_shape, min_dist, allow_change, mask, mask_rect,
                mask_area, last_cursor, cursor, drag_side>>

\* C22: a release always leaves drag_side cleared, whether or not an edge
\* was latched; a second release changes nothing; and the drag movement
\* that follows a release latches what the hit test finds under the pointer.
C22_Release ==
    [][allow_change =>
          /\ mop' = "release" => drag_side' = None
          /\ (mop = "release" /\ mop' = "release") => MaskUnchanged
          /\ (mop = "release" /\ mop' = "drag") =>
                 drag_side' = get_mask_rect_side(MCur, ptr'[1][1], ptr'[1][2])]_vars

\* released after a gesture that moved an edge
C22_Witness ==
    /\ mop = "release" /\ allow_change /\ drag_side = None
    /\ mask # InsetRect /\ mask_rect = Some(mask)

\* C23: a drag movement changes at most the coordinate of the edge latched
\* for that movement and leaves the other three coordinates unchanged; a
\* movement during which no edge is latched changes no coordinate.
C23_DragFrame ==
    [][mop' = "drag" =>
          IF drag_side' = None THEN mask' = mask
          ELSE \A i \in 1..4 : i # drag_side'[1] + 1 => mask'[i] = mask[i]]_vars

\* a movement with the right edge latched has moved it, and only it
C23_Witness ==
    /\ mop = "drag" /\ drag_side = Some(2)
    /\ mask[3] # InsetRect[3]
    /\ \A i \in {1, 2, 4} : mask[i] = InsetRect[i]

\* C24: within one gesture the edge is latched once, by the hit test of the
\* first movement that finds an edge, and stays the same for every later
\* movement until the release, wherever the pointer goes.
C24_LatchOnce ==
    [][allow_change =>
          /\ mop' = "drag" =>
                 drag_side' = IF drag_side = None
                              THEN get_mask_rect_side(MCur, ptr'[1][1],
                                                      ptr'[1][2])
                              ELSE drag_side
          /\ (drag_side # None /\ drag_side' # drag_side) =>
                 mop' = "release"]_vars

\* the right edge is latched and the pointer has dragged it onto the left
\* edge, where a hit test finds the left edge
C24_Witness ==
    /\ mop = "drag" /\ drag_side = Some(2)
    /\ mask[3] = mask[1] /\ mask[1] = InsetRect[1]
    /\ get_mask_rect_side(MCur, ptr[1][1], ptr[1][2]) = Some(0)

\* the pointer at (x, y) is within tolerance of edge number e of the drawn
\* rectangle b
NearEdge(b, e, x, y) ==
    LET ends == << <<b[1], b[2], b[1], b[4]>>, <<b[1], b[2], b[3], b[2]>>,
                   <<b[3], b[2], b[3], b[4]>>, <<b[1], b[4], b[3], b[4]>> >>[e + 1]
    IN  \E dx \in -1..1, dy \in -1..1 :
            is_on(<<ends[1], ends[2]>>, <<ends[3], ends[4]>>, <<x + dx, y + dy>>)

\* the first edge in the order left, top, right, bottom the pointer is near
FirstNear(b, x, y) ==
    IF \E e \in 0..3 : NearEdge(b, e, x, y)
    THEN Some(CHOOSE e \in 0..3 :
                  /\ NearEdge(b, e, x, y)
                  /\ \A f \in 0..(e - 1) : ~NearEdge(b, f, x, y))
    ELSE None

\* the hit test agrees with the order of the edges at every pointer position
HitOrder ==
    \A x \in PointerX, y \in PointerY :
        get_mask_rect_side(MCur, x, y) =
            IF mask_rect = None THEN None ELSE FirstNear(mask_rect[1], x, y)

\* a pointer move changes the cursor at most, and nothing of a mask that
\* is not editable
MotionFrame ==
    mop' = "motion" =>
        /\ UNCHANGED <<image_shape, min_dist, allow_change, mask, mask_rect,
                       mask_area, drag_side>>
        /\ ~allow_change => UNCHANGED <<cursor, last_cursor>>

\* the drawn rectangle is more than the tolerance wide and high
Wide(b) == b[3] - b[1] > 1 /\ b[4] - b[2] > 1

\* C25 as stated: the hit test reports the first edge in the order left,
\* top, right, bottom that the pointer is within tolerance of, or none; at
\* the top-left corner it reports left and at the bottom-right corner right;
\* a pointer move only changes the cursor and has no effect on a mask that
\* is not editable.
C25_HitTest ==
    /\ [](/\ HitOrder
          /\ mask_rect # None =>
                 LET b == mask_rect[1]
                 IN  /\ get_mask_rect_side(MCur, b[1], b[2]) = Some(0)
                     /\ get_mask_rect_side(MCur, b[3], b[4]) = Some(2))
    /\ [][MotionFrame]_vars

\* C25 amended: as above, with right reported at the bottom-right corner
\* when the rectangle is more than one pixel wide and high.
C25_HitTestWide ==
    /\ [](/\ HitOrder
          /\ mask_rect # None =>
                 LET b == mask_rect[1]
                 IN  /\ get_mask_rect_side(MCur, b[1], b[2]) = Some(0)
                     /\ Wide(b) =>
                            get_mask_rect_side(MCur, b[3], b[4]) = Some(2))
    /\ [][MotionFrame]_vars

\* the pointer has moved onto the left edge of a wide rectangle, mid-gesture
C25_Witness ==
    /\ mop = "motion" /\ cursor = "left_side" /\ drag_side # None
    /\ mask_rect # None /\ Wide(mask_rect[1])

SessionUnchanged ==
    UNCHANGED <<params, res, img, img_file, src_img, src_img_file, gen_board,
                gpar, gbak>>

\* C27: save_image with no image and save_sgf with no result each fail
\* with an explicit error and leave the session state unchanged.
C27_Preconditions ==
    [][/\ (op' = "save_image" /\ img = None) =>
              /\ err' = Some("Image was not loaded")
              /\ SessionUnchanged
       /\ (op' = "save_sgf" /\ res = None) =>
              /\ err' = Some("Recognition results are not available")
              /\ SessionUnchanged]_vars

\* export refused on a session that has neither a result nor an image
C27_Witness ==
    /\ op = "save_sgf" /\ res = None /\ img = None
    /\ err = Some("Recognition results are not available")

\* C28: if writing the image fails during save_image the failure
\* propagates to the caller and img_file and every other session field is
\* unchanged.
C28_FailedWrite ==
    [][\A filename \in {None, Some("b")}, max_size \in MaxSizes,
          written \in FailedWrites :
           (img # None /\ SaveImageAs(filename, max_size, written)) =>
               (err' # None /\ SessionUnchanged)]_vars

\* C29: can_reset_image is true only if the image is present and differs
\* pixel for pixel from the source image; it is false when there is no
\* source image to revert to.
C29_CanReset ==
    (op = "can_reset_image" /\ ret.val = Some(TRUE)) =>
        /\ img # None
        /\ src_img # None
        /\ img[1].px # src_img[1].px

\* C30: generate(shape) replaces the image with a synthesized board, sets
\* gen_board, clears img_file and leaves the source image, the parameters
\* and the stored result unchanged.
C30_Generate ==
    [][op' = "generate" =>
          /\ \E shape \in Shapes :
                 img' # None /\ img'[1].px = Generated(shape)
          /\ gen_board' = TRUE
          /\ img_file' = None
          /\ UNCHANGED <<src_img, params, res>>]_vars

\* a board generated on a session that holds a source image and a result
C30_Witness ==
    /\ op = "generate" /\ gen_board /\ img_file = None
    /\ src_img # None /\ res # None

\* ------------------------------------------------------ the segment tests
\* c is on the line through a and b and between them: in x, or in y when
\* the segment is vertical
OnSegment(a, b, c) ==
    /\ (b[1] - a[1]) * (c[2] - a[2]) - (c[1] - a[1]) * (b[2] - a[2]) = 0
    /\ IF a[1] = b[1]
       THEN Min(a[2], b[2]) <= c[2] /\ c[2] <= Max(a[2], b[2])
       ELSE Min(a[1], b[1]) <= c[1] /\ c[1] <= Max(a[1], b[1])

\* C31: is_on(a, b, c) holds exactly when c is collinear with a and b and
\* its x lies between theirs (its y, when a.x = b.x); is_on_w(a, b, c, delta)
\* holds exactly when is_on holds for a point (c.x + i - 1, c.y + j - 1)
\* with 0 <= i, j < 3 * delta, so is_on implies is_on_w, and for delta = 1
\* the window is the symmetric +/-1 neighbourhood of c.
C31_SegmentTests ==
    LET a == args[1][1]
        b == args[1][2]
        c == args[1][3]
        delta == args[1][4]
    IN  /\ op = "is_on" => ret.val = Some(OnSegment(a, b, c))
        /\ op = "is_on_w" =>
               /\ ret.val =
                      Some(\E i \in 0..(3 * delta - 1), j \in 0..(3 * delta - 1) :
                               OnSegment(a, b, <<c[1] + i - 1, c[2] + j - 1>>))
               /\ OnSegment(a, b, c) => ret.val = Some(TRUE)
               /\ delta = 1 =>
                      ret.val =
                          Some(\E dx \in -1..1, dy \in -1..1 :
                                   OnSegment(a, b, <<c[1] + dx, c[2] + dy>>))

\* a near miss: c is off a slanted segment and the window of delta 1 finds
\* it, one pixel before c in x
C31_Witness ==
    /\ op = "is_on_w" /\ ret.val = Some(TRUE)
    /\ args[1][4] = 1
    /\ args[1][1][1] # args[1][2][1] /\ args[1][1][2] # args[1][2][2]
    /\ ~OnSegment(args[1][1], args[1][2], args[1][3])
    /\ \E dy \in -1..1 :
           OnSegment(args[1][1], args[1][2],
                     <<args[1][3][1] - 1, args[1][3][2] + dy>>)

\* ------------------------------------------ the image and its source buffer
\* C32: reset_image makes the image the very same buffer as the source image,
\* no copy taken; a later transform or resize that changes the image gives
\* it a new buffer, never the source's, and leaves the source image as it
\* was.
C32_Aliasing ==
    /\ op = "reset_image" => img = src_img /\ src_img = args[1][4]
    /\ (op \in {"transform_image", "resize_board"} /\ err = None) =>
           /\ src_img = args[1][4]
           /\ (img # args[1][3] /\ src_img # None) =>
                  img[1].buf # src_img[1].buf

\* the image was the source buffer itself after a reset, and the resize
\* that followed gave the image another buffer
C32_Witness ==
    /\ op = "resize_board" /\ err = None
    /\ args[1][2] = "reset_image"
    /\ args[1][3] # None /\ args[1][3] = args[1][4]
    /\ src_img = args[1][4]
    /\ img[1].buf # src_img[1].buf
    /\ \E out \in Scales : img[1].px = Rescale(src_img[1].px, out)

\* --------------------------------------------- parameters across loads
\* the image a load of f leaves when it warps with rect, or does not warp
CarriedImage(f, rect, warped) ==
    IF warped THEN Warp(Decoded(f), rect[1]) ELSE Decoded(f)

\* C33 (as claimed): a load for which no artifact is loaded keeps the
\* TRANSFORM the parameters held before it and warps the new image with it;
\* the new image is left untransformed only when TRANSFORM is absent or
\* cleared.
C33_CarriedTransform ==
    (op = "load_image" /\ err = None /\ ~ret.found) =>
        /\ params["TRANSFORM"] = args[1][5]
        /\ img[1].px = CarriedImage(args[1][1], args[1][5], args[1][5] # None)

\* C33 (amended): a load for which no artifact is loaded keeps the TRANSFORM
\* the parameters held before it and warps the new image with it when it
\* is a 4-point rectangle; the new image is left untransformed when
\* TRANSFORM is absent, cleared or not a 4-point rectangle.
C33_CarriedRectangle ==
    (op = "load_image" /\ err = None /\ ~ret.found) =>
        /\ params["TRANSFORM"] = args[1][5]
        /\ img[1].px =
               CarriedImage(args[1][1], args[1][5], TransformOk(args[1][5]))
        /\ (\E i \in DOMAIN events : events[i] = "transform") =
               TransformOk(args[1][5])

\* right after a transform, a file without an artifact was loaded with
\* parameters asked for, and the new image is warped with the rectangle left
C33_Witness ==
    /\ op = "load_image" /\ err = None /\ ~ret.found
    /\ args[1][1] = "b" /\ args[1][2]
    /\ args[1][4] = "transform_image" /\ args[1][5] # None
    /\ img[1].px = Warp(Decoded("b"), args[1][5][1])
    /\ src_img[1].px = Decoded("b")

====
